---- MODULE Spec2Model ----
(***************************************************************************)
(* Image Source Method (src/ism/ism.py): the Model facade, the mirror      *)
(* source generator ism(), the evaluation pass Model._determine and the    *)
(* top-K selection Model._strongest, as one sequential state machine.      *)
(*                                                                         *)
(* Objects are modelled as a heap: a Mirror is a record stored in `heap`   *)
(* at the index given by its allocation order, and a reference to a Mirror *)
(* (Mirror.mother, an entry of mirrors[order]) is that index.  Walls and   *)
(* points are compared by value, so a wall or a point is a small number    *)
(* and a list may hold the same wall or point twice.                       *)
(*                                                                         *)
(* The geometry package (Point.on_interior_side_of, Point.in_field_angle,  *)
(* Point.mirror_with) is external: the two predicates answer               *)
(* nondeterministically at every call, and a reflected position is the     *)
(* term "source point reflected in this list of walls".                    *)
(***************************************************************************)
EXTENDS Integers, Sequences, FiniteSets, TLC

VARIABLES
    walls,            \* Model.walls: list of walls
    source,           \* Model.source: list of points
    receiver,         \* Model.receiver: list of points
    max_order,        \* Model.max_order
    call,             \* the method being consumed: "none", "mirrors", "determine"
    strongest,        \* determine's argument: <<>> is None, <<k>> the integer k
    pc,               \* position of the control flow
    heap,             \* the Mirror objects, by allocation order
    mirrors,          \* ism's local list of lists: mirrors[order+1] holds references
    order,            \* ism's loop variable `order`
    m,                \* ism's loop variable `m` (enumerate, start=1)
    w,                \* position of `wall` in walls (1-based)
    probe,            \* what the geometry answered in the latest wall step
    it,               \* how many Mirrors ism's generator has handed out
    cur,              \* _determine's local `mirror` (a reference), 0 before the first
    t,                \* _determine's loop variable `t` (1-based)
    mother_strength,  \* _determine's local `mother_strength`
    collected,        \* what nlargest has consumed from _determine so far
    out               \* the Mirrors (references) yielded to the consumer so far

vars == <<walls, source, receiver, max_order, call, strongest, pc, heap, mirrors,
          order, m, w, probe, it, cur, t, mother_strength, collected, out>>

(***************************************************************************)
(* Bounds of the model.                                                    *)
(***************************************************************************)
MaxWalls == 3
MaxOrder == 3
MaxRecv == 2
MaxK == 2
MaxGenTree == 10
MaxEvalTree == 7

(***************************************************************************)
(* Values.                                                                 *)
(***************************************************************************)
None == 0

NFreq == 2

Max(a, b) == IF a >= b THEN a ELSE b

Min(a, b) == IF a <= b THEN a ELSE b

RECURSIVE Pow(_, _)
Pow(b, e) == IF e = 0 THEN 1 ELSE b * Pow(b, e - 1)

RECURSIVE SumTo(_, _, _)
SumTo(walls_, from, to) ==
    IF from > to THEN 0
    ELSE walls_ * Pow(walls_ - 1, from - 1) + SumTo(walls_, from + 1, to)

amount_of_sources_short(order_, walls_) == 1 + SumTo(walls_, 1, order_ - 1)

amount_of_sources(order_, walls_) == 1 + SumTo(walls_, 1, order_)

\* A list is canonical when each entry is at most one more than the largest
\* before it: one representative of every list up to renaming its values.
IsCanonical(s) ==
    \A i \in 1..Len(s) :
        /\ s[i] >= 1
        /\ \A v \in 1..(s[i] - 1) : \E j \in 1..(i - 1) : s[j] = v

Lists(n, vals) == UNION {[1..k -> vals] : k \in 0..n}

WallLists == {s \in Lists(MaxWalls, 1..MaxWalls) : IsCanonical(s)}

SourceLists == {<<1>>, <<1, 1>>, <<1, 2>>}

ReceiverLists == {[i \in 1..n |-> i] : n \in 1..MaxRecv}

Point(p) == [base |-> p, path |-> <<>>]

mirror_with(position, wall) == [position EXCEPT !.path = Append(@, wall)]

Mirror(position, mother, wall, order_) ==
    [position |-> position, mother |-> mother, wall |-> wall, order |-> order_,
     effective |-> <<>>, distance |-> <<>>, strength |-> <<>>]

is_source_moving == Cardinality({source[i] : i \in 1..Len(source)}) # 1

NoProbe == [same |-> FALSE, side_asked |-> FALSE, side |-> 0,
            fov_asked |-> FALSE, fov |-> FALSE, emitted |-> FALSE]

(***************************************************************************)
(* ism(): the three truncation rules and the new Mirror.                   *)
(***************************************************************************)
IsGeneratingWallNever(mirror, wall) == FALSE

IsGeneratingWall(mirror, wall) == wall = mirror.wall

NotStrictlyInterior(side) == side # 1

OnWrongSide(side) == side = -1

NeedsFieldAngle(mirror) == mirror.wall # None

CenterNotSeen(mirror, fov) == NeedsFieldAngle(mirror) /\ ~fov

RootMirrorOrderOne(source_position) == Mirror(source_position, None, None, 1)

RootMirror(source_position) == Mirror(source_position, None, None, 0)

NewMirrorMotherOrder(mirror_ref, wall, order_) ==
    Mirror(mirror_with(heap[mirror_ref].position, wall), mirror_ref, wall,
           heap[mirror_ref].order)

NewMirror(mirror_ref, wall, order_) ==
    Mirror(mirror_with(heap[mirror_ref].position, wall), mirror_ref, wall, order_)

RECURSIVE Concat(_, _)
Concat(lists, from) ==
    IF from > Len(lists) THEN <<>> ELSE lists[from] \o Concat(lists, from + 1)

RECURSIVE ConcatReversed(_, _)
ConcatReversed(lists, upto) ==
    IF upto = 0 THEN <<>> ELSE lists[upto] \o ConcatReversed(lists, upto - 1)

FlattenHighestFirst(lists) == ConcatReversed(lists, Len(lists))

Flatten(lists) == Concat(lists, 1)

(***************************************************************************)
(* The initial states: a constructed Model, nothing called yet.            *)
(***************************************************************************)
TypeInit ==
    /\ walls \in WallLists
    /\ source \in SourceLists
    /\ receiver \in ReceiverLists
    /\ max_order \in 0..MaxOrder
    /\ call = "none"
    /\ strongest = <<>>
    /\ pc = "idle"
    /\ heap = <<>>
    /\ mirrors = <<>>
    /\ order = 0
    /\ m = 0
    /\ w = 0
    /\ probe = NoProbe
    /\ it = 0
    /\ cur = 0
    /\ t = 0
    /\ mother_strength = <<>>
    /\ collected = <<>>
    /\ out = <<>>

InitGen ==
    /\ TypeInit
    /\ amount_of_sources(max_order, Len(walls)) <= MaxGenTree
    /\ Len(receiver) = 1

(***************************************************************************)
(* Model.mirrors()                                                         *)
(***************************************************************************)
MirrorsUnchecked == FALSE

\* `if not self.walls` in mirrors()
MirrorsNoWalls == walls = <<>>

CallMirrors ==
    /\ pc = "idle"
    /\ call' = "mirrors"
    /\ pc' = "mirrors"
    /\ UNCHANGED <<walls, source, receiver, max_order, strongest, heap, mirrors,
                   order, m, w, probe, it, cur, t, mother_strength, collected, out>>

MirrorsRaise ==
    /\ pc = "mirrors"
    /\ MirrorsNoWalls
    /\ pc' = "ValueError"
    /\ UNCHANGED <<walls, source, receiver, max_order, call, strongest, heap, mirrors,
                   order, m, w, probe, it, cur, t, mother_strength, collected, out>>

\* mirrors() hands walls, source[0], receiver[0] and max_order to ism(), which
\* builds the root before its loops.
IsmBegin ==
    /\ pc = "mirrors"
    /\ ~MirrorsNoWalls
    /\ heap' = <<RootMirror(Point(source[1]))>>
    /\ mirrors' = <<<<1>>>>
    /\ order' = 1
    /\ pc' = "order_loop"
    /\ UNCHANGED <<walls, source, receiver, max_order, call, strongest,
                   m, w, probe, it, cur, t, mother_strength, collected, out>>

OrderStep ==
    /\ pc = "order_loop"
    /\ order <= max_order
    /\ mirrors' = Append(mirrors, <<>>)
    /\ m' = 1
    /\ pc' = "mirror_loop"
    /\ UNCHANGED <<walls, source, receiver, max_order, call, strongest, heap,
                   order, w, probe, it, cur, t, mother_strength, collected, out>>

OrderDone ==
    /\ pc = "order_loop"
    /\ order > max_order
    /\ pc' = "yield"
    /\ UNCHANGED <<walls, source, receiver, max_order, call, strongest, heap, mirrors,
                   order, m, w, probe, it, cur, t, mother_strength, collected, out>>

MirrorStep ==
    /\ pc = "mirror_loop"
    /\ m <= Len(mirrors[order])
    /\ w' = 1
    /\ pc' = "wall_loop"
    /\ UNCHANGED <<walls, source, receiver, max_order, call, strongest, heap, mirrors,
                   order, m, probe, it, cur, t, mother_strength, collected, out>>

MirrorDone ==
    /\ pc = "mirror_loop"
    /\ m > Len(mirrors[order])
    /\ order' = order + 1
    /\ pc' = "order_loop"
    /\ UNCHANGED <<walls, source, receiver, max_order, call, strongest, heap, mirrors,
                   m, w, probe, it, cur, t, mother_strength, collected, out>>

\* One pass of the body of `for wall in walls`.  The geometry is asked only
\* as far as the code gets: the side only for another wall than the
\* generating one, the field angle only for a mirror that has a wall and is
\* not on the wrong side.
WallStep ==
    /\ pc = "wall_loop"
    /\ w <= Len(walls)
    /\ LET ref == mirrors[order][m]
           mirror == heap[ref]
           wall == walls[w]
       IN \E side \in {-1, 0, 1}, fov \in BOOLEAN :
            LET same == IsGeneratingWall(mirror, wall)
                side_asked == ~same
                wrong == side_asked /\ OnWrongSide(side)
                fov_asked == side_asked /\ ~wrong /\ NeedsFieldAngle(mirror)
                unseen == fov_asked /\ CenterNotSeen(mirror, fov)
                emit == ~same /\ ~wrong /\ ~unseen
            IN /\ side_asked \/ side = 0
               /\ fov_asked \/ ~fov
               /\ probe' = [same |-> same, side_asked |-> side_asked, side |-> side,
                            fov_asked |-> fov_asked, fov |-> fov, emitted |-> emit]
               /\ IF emit
                  THEN /\ heap' = Append(heap, NewMirror(ref, wall, order))
                       /\ mirrors' = [mirrors EXCEPT ![order + 1] = Append(@, Len(heap) + 1)]
                  ELSE UNCHANGED <<heap, mirrors>>
    /\ w' = w + 1
    /\ UNCHANGED <<walls, source, receiver, max_order, call, strongest, pc,
                   order, m, it, cur, t, mother_strength, collected, out>>

WallDone ==
    /\ pc = "wall_loop"
    /\ w > Len(walls)
    /\ m' = m + 1
    /\ pc' = "mirror_loop"
    /\ UNCHANGED <<walls, source, receiver, max_order, call, strongest, heap, mirrors,
                   order, w, probe, it, cur, t, mother_strength, collected, out>>

\* yield from (val for subl in mirrors for val in subl), consumed by the
\* caller of mirrors().
MirrorsYield ==
    /\ pc = "yield"
    /\ call = "mirrors"
    /\ it < Len(Flatten(mirrors))
    /\ out' = Append(out, Flatten(mirrors)[it + 1])
    /\ it' = it + 1
    /\ UNCHANGED <<walls, source, receiver, max_order, call, strongest, pc, heap, mirrors,
                   order, m, w, probe, cur, t, mother_strength, collected>>

MirrorsEnd ==
    /\ pc = "yield"
    /\ call = "mirrors"
    /\ it = Len(Flatten(mirrors))
    /\ pc' = "done"
    /\ UNCHANGED <<walls, source, receiver, max_order, call, strongest, heap, mirrors,
                   order, m, w, probe, it, cur, t, mother_strength, collected, out>>

(***************************************************************************)
(* Complex numbers <<re, im>> with integer parts, and numpy's order on     *)
(* them (by real part, then by imaginary part), which ndarray.max and the  *)
(* comparison of two complex128 scalars use.                               *)
(***************************************************************************)
CMul(a, b) == <<a[1] * b[1] - a[2] * b[2], a[1] * b[2] + a[2] * b[1]>>

CLess(a, b) == a[1] < b[1] \/ (a[1] = b[1] /\ a[2] < b[2])

Ones(n) == [f \in 1..n |-> <<1, 0>>]

Uninit == -1

\* Wall.impedance: one entry per frequency.
impedance(wall) ==
    [f \in 1..NFreq |->
        CASE wall % 3 = 1 -> <<-2, 0>>
          [] wall % 3 = 2 -> <<0, f>>
          [] OTHER -> <<1, 0>>]

n_frequencies == Len(impedance(walls[1]))

n_positions == Len(receiver)

\* test_effectiveness of the compiled module _ism, when it returns: the
\* mother's strength times the wall's coefficient and a factor of the
\* receiver, a 0/1 flag and a distance.
test_effectiveness(walls_, source_position, receiver_position, position, wall, ms) ==
    [effective |-> IF wall = None THEN 1 ELSE (wall + receiver_position) % 2,
     strength |-> [f \in 1..Len(ms) |->
                     CMul(CMul(ms[f], IF wall = None THEN <<1, 0>> ELSE impedance(wall)[f]),
                          <<receiver_position, 0>>)],
     distance |-> Len(position.path) + receiver_position]

(***************************************************************************)
(* Model._determine                                                        *)
(***************************************************************************)
Allocate(mirror) ==
    [mirror EXCEPT !.effective = [i \in 1..n_positions |-> Uninit],
                   !.distance = [i \in 1..n_positions |-> Uninit],
                   !.strength = [i \in 1..n_positions |-> Ones(n_frequencies)]]

HasStrength(ref, row) == row <= Len(heap[ref].strength)

MotherFirstRow(mirror, row) == heap[mirror.mother].strength[1]

MotherRow(mirror, row) == heap[mirror.mother].strength[row]

MotherStrength(mirror, row) ==
    IF mirror.mother # None THEN MotherRow(mirror, row) ELSE Ones(n_frequencies)

Truthy(amount) == amount # <<>> /\ amount[1] # 0

(***************************************************************************)
(* Model._strongest: heapq.nlargest(amount, mirrors, key), which is        *)
(* sorted(mirrors, key=key, reverse=True)[:amount], equal keys in input    *)
(* order.                                                                  *)
(***************************************************************************)
RECURSIVE MaxOver(_, _)
MaxOver(entries, best) ==
    IF entries = <<>> THEN best
    ELSE MaxOver(Tail(entries), IF CLess(best, Head(entries)) THEN Head(entries) ELSE best)

Entries(strength) == Concat(strength, 1)

StrengthMax(strength) == MaxOver(Tail(Entries(strength)), Head(Entries(strength)))

Key(ref) == StrengthMax(heap[ref].strength)

RECURSIVE InsertByKey(_, _)
InsertByKey(sorted, ref) ==
    IF sorted = <<>> THEN <<ref>>
    ELSE IF CLess(Key(Head(sorted)), Key(ref))
         THEN <<ref>> \o sorted
         ELSE <<Head(sorted)>> \o InsertByKey(Tail(sorted), ref)

RECURSIVE SortedByKey(_, _)
SortedByKey(refs, n) ==
    IF n = 0 THEN <<>> ELSE InsertByKey(SortedByKey(refs, n - 1), refs[n])

nlargest(amount, refs) ==
    SubSeq(SortedByKey(refs, Len(refs)), 1, Min(Max(amount, 0), Len(refs)))

_strongest(refs, amount) == nlargest(amount, refs)

(***************************************************************************)
(* Model.determine(strongest)                                              *)
(***************************************************************************)
Init ==
    /\ TypeInit
    /\ amount_of_sources(max_order, Len(walls)) <= MaxEvalTree

\* `if not self.walls` in determine()
DetermineNoWalls == walls = <<>>

CallDetermine ==
    /\ pc = "idle"
    /\ \E k \in {<<>>} \cup {<<n>> : n \in 0..MaxK} : strongest' = k
    /\ call' = "determine"
    /\ pc' = "determine"
    /\ UNCHANGED <<walls, source, receiver, max_order, heap, mirrors,
                   order, m, w, probe, it, cur, t, mother_strength, collected, out>>

DetermineRaise ==
    /\ pc = "determine"
    /\ DetermineNoWalls
    /\ pc' = "ValueError"
    /\ UNCHANGED <<walls, source, receiver, max_order, call, strongest, heap, mirrors,
                   order, m, w, probe, it, cur, t, mother_strength, collected, out>>

\* The pipeline is built lazily; the consumer's first pull runs down to
\* mirrors().
DetermineBegin ==
    /\ pc = "determine"
    /\ ~DetermineNoWalls
    /\ pc' = "mirrors"
    /\ UNCHANGED <<walls, source, receiver, max_order, call, strongest, heap, mirrors,
                   order, m, w, probe, it, cur, t, mother_strength, collected, out>>

\* mirror = next(mirrors) and the allocation of its three arrays.
DetNext ==
    /\ pc = "yield"
    /\ call = "determine"
    /\ it < Len(Flatten(mirrors))
    /\ LET ref == Flatten(mirrors)[it + 1]
       IN /\ cur' = ref
          /\ heap' = [heap EXCEPT ![ref] = Allocate(@)]
    /\ it' = it + 1
    /\ t' = 1
    /\ pc' = "eval"
    /\ UNCHANGED <<walls, source, receiver, max_order, call, strongest, mirrors,
                   order, m, w, probe, mother_strength, collected, out>>

\* One pass of `for t in range(n_positions)` in which the Provider returns.
\* A mother without a strength row t makes the subscript fail.
DetCell ==
    /\ pc = "eval"
    /\ t <= n_positions
    /\ LET mirror == heap[cur]
       IN IF mirror.mother # None /\ ~HasStrength(mirror.mother, t)
          THEN /\ pc' = "TypeError"
               /\ UNCHANGED <<heap, mother_strength, t>>
          ELSE LET ms == MotherStrength(mirror, t)
                   r == test_effectiveness(walls, source[1], receiver[t],
                                           mirror.position, mirror.wall, ms)
               IN /\ mother_strength' = ms
                  /\ heap' = [heap EXCEPT ![cur].effective[t] = r.effective,
                                          ![cur].strength[t] = r.strength,
                                          ![cur].distance[t] = r.distance]
                  /\ t' = t + 1
                  /\ pc' = pc
    /\ UNCHANGED <<walls, source, receiver, max_order, call, strongest, mirrors,
                   order, m, w, probe, it, cur, collected, out>>

\* The Provider raises for this cell: nothing in _determine, nlargest or
\* determine catches it.
DetCellRaise ==
    /\ pc = "eval"
    /\ t <= n_positions
    /\ heap[cur].mother # None => HasStrength(heap[cur].mother, t)
    /\ mother_strength' = MotherStrength(heap[cur], t)
    /\ pc' = "ProviderError"
    /\ UNCHANGED <<walls, source, receiver, max_order, call, strongest, heap, mirrors,
                   order, m, w, probe, it, cur, t, collected, out>>

\* yield mirror: to the consumer, or to nlargest when determine selects.
DetYield ==
    /\ pc = "eval"
    /\ t > n_positions
    /\ IF Truthy(strongest)
       THEN collected' = Append(collected, cur) /\ out' = out
       ELSE out' = Append(out, cur) /\ collected' = collected
    /\ pc' = "yield"
    /\ UNCHANGED <<walls, source, receiver, max_order, call, strongest, heap, mirrors,
                   order, m, w, probe, it, cur, t, mother_strength>>

\* next(mirrors) raises StopIteration inside the generator _determine.  An
\* interpreter without PEP 479 (before Python 3.7) ends the generator there:
\* the sequence ends, and nlargest returns its selection.
DetStop ==
    /\ pc = "yield"
    /\ call = "determine"
    /\ it = Len(Flatten(mirrors))
    /\ out' = IF Truthy(strongest) THEN _strongest(collected, strongest[1]) ELSE out
    /\ pc' = "done"
    /\ UNCHANGED <<walls, source, receiver, max_order, call, strongest, heap, mirrors,
                   order, m, w, probe, it, cur, t, mother_strength, collected>>

\* The same StopIteration under PEP 479 (Python 3.7 and later) becomes a
\* RuntimeError, which reaches the consumer.
DetRuntimeError ==
    /\ pc = "yield"
    /\ call = "determine"
    /\ it = Len(Flatten(mirrors))
    /\ pc' = "RuntimeError"
    /\ UNCHANGED <<walls, source, receiver, max_order, call, strongest, heap, mirrors,
                   order, m, w, probe, it, cur, t, mother_strength, collected, out>>

Next ==
    \/ CallMirrors
    \/ MirrorsRaise
    \/ IsmBegin
    \/ OrderStep
    \/ OrderDone
    \/ MirrorStep
    \/ MirrorDone
    \/ WallStep
    \/ WallDone
    \/ MirrorsYield
    \/ MirrorsEnd
    \/ CallDetermine
    \/ DetermineRaise
    \/ DetermineBegin
    \/ DetNext
    \/ DetCell
    \/ DetCellRaise
    \/ DetYield
    \/ DetStop
    \/ DetRuntimeError

Spec == Init /\ [][Next]_vars

NextGen ==
    \/ CallMirrors
    \/ MirrorsRaise
    \/ IsmBegin
    \/ OrderStep
    \/ OrderDone
    \/ MirrorStep
    \/ MirrorDone
    \/ WallStep
    \/ WallDone
    \/ MirrorsYield
    \/ MirrorsEnd

SpecGen == InitGen /\ [][NextGen]_vars

(***************************************************************************)
(* Properties.                                                             *)
(***************************************************************************)
Refs == 1..Len(heap)

Generated == Flatten(mirrors)

BeforeGeneration == {"idle", "mirrors", "determine"}

\* C1: with an empty wall list, consuming mirrors() or determine() ends in
\* the ValueError and nothing else happens: no Mirror is built and none is
\* yielded.
C1_NoWallsRaises ==
    walls = <<>> =>
        /\ pc \in BeforeGeneration \cup {"ValueError"}
        /\ heap = <<>>
        /\ out = <<>>

C1_Witness == walls = <<>> /\ call = "determine" /\ pc = "ValueError"

\* The squared magnitude of a complex number, and a Mirror's peak.
Magnitude2(a) == a[1] * a[1] + a[2] * a[2]

PeakMagnitude2(ref) ==
    LET e == Entries(heap[ref].strength)
    IN CHOOSE p \in {Magnitude2(e[i]) : i \in 1..Len(e)} :
           \A i \in 1..Len(e) : Magnitude2(e[i]) <= p

Returned == {out[i] : i \in 1..Len(out)}

\* C2: when determine(strongest=k) runs the top-K selection over `count`
\* evaluated Mirrors and ends, exactly min(k, count) Mirrors were returned
\* and each has a peak strength (largest magnitude over its whole strength
\* array) at least that of every Mirror not returned.
C2_TopK ==
    (call = "determine" /\ Truthy(strongest) /\ pc = "done") =>
        /\ Len(out) = Min(strongest[1], Len(Generated))
        /\ \A r \in Returned : \A s \in Refs \ Returned :
               PeakMagnitude2(r) >= PeakMagnitude2(s)

LatestRow == IF pc = "ProviderError" THEN t ELSE t - 1

ProviderCalled == (pc = "eval" /\ t > 1) \/ pc = "ProviderError"

RowWritten(ref, row) ==
    /\ row <= Len(heap[ref].effective)
    /\ heap[ref].effective[row] # Uninit

\* C3: the mother-strength vector of the latest Provider call, made for the
\* Mirror `cur` and one receiver row, is for the root the vector of ones
\* (one per frequency) and otherwise the mother's strength row of that same
\* receiver, the mother's own evaluation having written that row before.
C3_MotherStrengthSameReceiver ==
    ProviderCalled =>
        LET mirror == heap[cur]
        IN IF mirror.mother = None
           THEN mother_strength = [f \in 1..Len(impedance(walls[1])) |-> <<1, 0>>]
           ELSE /\ RowWritten(mirror.mother, LatestRow)
                /\ mother_strength = heap[mirror.mother].strength[LatestRow]

C3_Witness ==
    /\ pc = "eval"
    /\ t = 3
    /\ heap[cur].order = 2
    /\ mother_strength # heap[heap[cur].mother].strength[1]

\* C4: a source list with more than one distinct position is rejected:
\* neither mirrors() nor determine() builds or yields any Mirror for it.
C4_MovingSourceRejected ==
    is_source_moving =>
        /\ heap = <<>>
        /\ out = <<>>
        /\ pc \notin {"yield", "eval", "done"}

GenerationOver == pc \in {"yield", "done"}

\* C5: with walls, the generated sequence has exactly one Mirror of order 0:
\* its first element, at the source position, without mother and without
\* wall; for max_order = 0 it is the only element.  What mirrors() yields is
\* that sequence.
C5_OneRootFirst ==
    (walls # <<>> /\ pc \notin BeforeGeneration) =>
        /\ Len(Generated) >= 1
        /\ LET root == heap[Generated[1]]
           IN /\ root.order = 0
              /\ root.mother = None
              /\ root.wall = None
              /\ root.position = [base |-> source[1], path |-> <<>>]
        /\ \A i \in 2..Len(Generated) : heap[Generated[i]].order # 0
        /\ max_order = 0 => Len(Generated) = 1
        /\ GenerationOver => out = SubSeq(Generated, 1, it)
        /\ pc = "done" => out = Generated

C5_Witness ==
    /\ pc = "done"
    /\ max_order >= 2
    /\ Len(out) >= 4
    /\ heap[out[Len(out)]].order = 2

\* C6: no Mirror has the generating wall of its mother.
C6_NotMothersWall ==
    \A ref \in Refs :
        heap[ref].mother # None => heap[ref].wall # heap[heap[ref].mother].wall

C6_Witness ==
    /\ pc = "done"
    /\ \E i \in 1..Len(walls) : \E j \in 1..Len(walls) : i # j /\ walls[i] = walls[j]
    /\ \E ref \in Refs : heap[ref].order = 2

RECURSIVE Ancestor(_, _)
Ancestor(ref, steps) ==
    IF steps <= 0 \/ heap[ref].mother = None THEN ref
    ELSE Ancestor(heap[ref].mother, steps - 1)

\* C7: a Mirror other than the root has the order of its mother plus one,
\* between 1 and max_order, and following the mother links `order` times
\* from it ends at the root, the only Mirror without mother.
C7_OrderIsMotherPlusOne ==
    \A ref \in Refs :
        IF ref = 1
        THEN heap[ref].mother = None /\ heap[ref].order = 0
        ELSE /\ heap[ref].mother \in Refs
             /\ heap[ref].order = heap[heap[ref].mother].order + 1
             /\ heap[ref].order \in 1..max_order
             /\ Ancestor(ref, heap[ref].order) = 1

C7_Witness ==
    /\ pc = "done"
    /\ max_order = 3
    /\ \E ref \in Refs : heap[ref].order = 3

Evaluated(ref) ==
    /\ Len(heap[ref].strength) = Len(receiver)
    /\ \A row \in 1..Len(receiver) : RowWritten(ref, row)

\* C8: the generated sequence is order-major and holds every Mirror after
\* its mother; mirrors() yields it in that order, and when _determine
\* evaluates a Mirror its mother has been evaluated for every receiver.
C8_OrderMajor ==
    /\ \A i \in 1..Len(Generated) : \A j \in 1..Len(Generated) :
           i < j => heap[Generated[i]].order <= heap[Generated[j]].order
    /\ \A i \in 1..Len(Generated) :
           LET mother == heap[Generated[i]].mother
           IN mother # None =>
                  \E j \in 1..(i - 1) : Generated[j] = mother
    /\ call = "mirrors" => out = SubSeq(Generated, 1, Len(out))
    /\ pc \notin {"eval", "ProviderError"} \/ heap[cur].mother = None
           \/ Evaluated(heap[cur].mother)
    /\ pc # "TypeError"

C8_Witness ==
    /\ pc = "eval"
    /\ heap[cur].order = 2
    /\ Len(receiver) = 2
    /\ Len(Generated) >= 4

\* C9: the number of generated Mirrors is at most amount_of_sources(
\* max_order, w) for the w walls of the list, and the number of order-k
\* Mirrors at most w * (w - 1)^(k - 1).
C9_AtMostAmountOfSources ==
    /\ Len(Generated) <= amount_of_sources(max_order, Len(walls))
    /\ \A k \in 1..(Len(mirrors) - 1) :
           Len(mirrors[k + 1]) <= Len(walls) * Pow(Len(walls) - 1, k - 1)

C9_Witness ==
    /\ pc = "done"
    /\ Len(walls) = 3
    /\ max_order = 2
    /\ Len(out) = 10

WallStepEmits ==
    LET ref == mirrors[order][m]
        mirror == heap[ref]
        wall == walls[w]
        accepted == /\ wall # mirror.wall
                    /\ probe'.side # -1
                    /\ (mirror.order = 0 \/ probe'.fov)
        child == [position |-> [mirror.position EXCEPT !.path = Append(@, wall)],
                  mother |-> ref, wall |-> wall, order |-> order,
                  effective |-> <<>>, distance |-> <<>>, strength |-> <<>>]
    IN /\ order \in 1..max_order
       /\ mirror.order = order - 1
       /\ w' = w + 1 /\ m' = m /\ order' = order
       /\ IF accepted
          THEN /\ heap' = Append(heap, child)
               /\ mirrors' = [mirrors EXCEPT ![order + 1] = Append(@, Len(heap) + 1)]
          ELSE heap' = heap /\ mirrors' = mirrors

\* The loops leave no order, parent or wall out: a loop is left only past
\* its last element and entered at its first.
LoopsCoverEveryPair ==
    /\ (pc = "mirrors" /\ pc' = "order_loop") => order' = 1
    /\ (pc = "order_loop" /\ pc' = "mirror_loop") => order <= max_order /\ m' = 1
    /\ (pc = "order_loop" /\ pc' = "yield") => order > max_order
    /\ (pc = "mirror_loop" /\ pc' = "wall_loop") => m <= Len(mirrors[order]) /\ w' = 1
    /\ (pc = "mirror_loop" /\ pc' = "order_loop") =>
           m > Len(mirrors[order]) /\ order' = order + 1
    /\ (pc = "wall_loop" /\ pc' = "mirror_loop") => w > Len(walls) /\ m' = m + 1

ChildrenInLoopOrder ==
    \A k \in 2..Len(mirrors) : \A i \in 1..(Len(mirrors[k]) - 1) :
        LET a == heap[mirrors[k][i]]
            b == heap[mirrors[k][i + 1]]
        IN \/ a.mother < b.mother
           \/ /\ a.mother = b.mother
              /\ \E x \in 1..Len(walls) : \E y \in (x + 1)..Len(walls) :
                     walls[x] = a.wall /\ walls[y] = b.wall

\* C10: a wall step for the order-(n-1) Mirror `mirror` and the wall `wall`
\* emits a child if and only if the wall is not the Mirror's generating
\* wall, the Mirror's position is not on the exterior side of the wall, and
\* the Mirror is the root or the wall's center is in its field of view; the
\* child is the Mirror's position reflected in the wall, with that mother,
\* wall and order, appended to the Mirrors of order n; every parent of every
\* order up to max_order - 1 meets every wall, parents in production order
\* and walls in input order.
C10_ChildIffRulesPass ==
    /\ [][(pc = "wall_loop" /\ w <= Len(walls)) => WallStepEmits]_vars
    /\ [][LoopsCoverEveryPair]_vars
    /\ []ChildrenInLoopOrder

C10_Witness ==
    /\ pc = "wall_loop"
    /\ order = 2
    /\ probe.fov_asked /\ ~probe.fov
    /\ Len(mirrors[3]) >= 2

IsDescendant(ref, of) ==
    \E steps \in 1..heap[ref].order : ref # of /\ Ancestor(ref, steps) = of

\* C11: when the Provider fails for the pair (Mirror `cur`, receiver t), the
\* evaluation still has a result for every unrelated pair, that is for the
\* other receivers of that Mirror and for every receiver of every Mirror
\* that is not its descendant, and no descendant has a strength for
\* receiver t.
C11_FailureStaysInItsCell ==
    pc = "ProviderError" =>
        /\ \A row \in 1..Len(receiver) : row # t => RowWritten(cur, row)
        /\ \A ref \in Refs :
               (ref # cur /\ ~IsDescendant(ref, cur)) => Evaluated(ref)
        /\ \A ref \in Refs : IsDescendant(ref, cur) => ~RowWritten(ref, t)

\* The part of C11 the code does keep: a failed cell leaves no descendant
\* with a strength, for that receiver or any other.
C11_NoDescendantEvaluated ==
    pc = "ProviderError" =>
        \A ref \in Refs : IsDescendant(ref, cur) => heap[ref].strength = <<>>

\* C12: with walls and no Provider failure, determine(strongest=None) yields
\* the generated Mirrors once each and in generation order, every one with
\* its three arrays filled for all receivers when it is yielded, and ends
\* normally when they are exhausted: no error is raised then.
C12_AllYieldedThenNormalEnd ==
    (call = "determine" /\ strongest = <<>> /\ walls # <<>>
        /\ pc \notin {"ProviderError"}) =>
        /\ Len(out) <= Len(Generated)
        /\ out = SubSeq(Generated, 1, Len(out))
        /\ \A i \in 1..Len(out) :
               /\ Evaluated(out[i])
               /\ Len(heap[out[i]].distance) = Len(receiver)
               /\ \A row \in 1..Len(receiver) : heap[out[i]].distance[row] # Uninit
        /\ pc = "done" => out = Generated
        /\ pc # "RuntimeError"

\* The part of C12 that holds on every interpreter: order, completeness and
\* filled arrays, whichever way the exhaustion ends.
C12_AllYieldedFilled ==
    (call = "determine" /\ strongest = <<>> /\ walls # <<>>
        /\ pc \notin {"ProviderError"}) =>
        /\ out = SubSeq(Generated, 1, Len(out))
        /\ \A i \in 1..Len(out) : Evaluated(out[i])
        /\ pc \in {"done", "RuntimeError"} => out = Generated

====
